---- MODULE Spec2Model ----
(***************************************************************************)
(* Model of the ZMQ notification client: the three-frame message codec of  *)
(* src/message.rs and the stream state machines of src/subscribe/stream.rs *)
(* Bytes are naturals below 256; a frame is a sequence of bytes; a frame   *)
(* group (multipart) is a sequence of frames.                              *)
(***************************************************************************)
EXTENDS Integers, Sequences, FiniteSets, TLC

VARIABLES
    mp,         \* codec: frame group last handed to from_multipart
    dec,        \* codec: what from_multipart returned for mp
    msg,        \* codec: Message last handed to serialize_to_vecs
    enc,        \* codec: what serialize_to_vecs did for msg
    cpc,        \* codec: last codec operation
    monq,       \* items the monitor PAIR socket holds ready, oldest first
    dataq,      \* items the SUB socket holds ready, oldest first
    nmon,       \* monitor items that have arrived so far
    ndata,      \* data items that have arrived so far
    nendpoints, \* endpoints.len() of the subscribe call
    hpc,        \* subscribe_async_wait_handshake: position / outcome
    connecting, \* its local `connecting`
    hsSeen,     \* history: HandshakeSucceeded events it has read
    discSeen,   \* history: Disconnected events it has read
    inner,      \* FiniteMessageStream.inner: "Unbuilt", "Some" or "None"
    fres,       \* what the last poll_next of the stream in use returned
    op,         \* the last operation that ran
    delivered,  \* history: the items FiniteMessageStream::poll_next has returned
    sleepState, \* timer: the SleepReadyState behind the Arc<Mutex<..>>
    lock,       \* timer: who holds the mutex: "free", "thread" or "poller"
    tpc,        \* timer: position of the spawned thread
    told,       \* timer: the thread's local `state` (what mem::replace returned)
    ppc,        \* timer: position of a running Sleep::poll
    sres,       \* timer: what the last Sleep::poll returned
    npolls,     \* timer: Sleep::poll calls begun; the n-th call carries waker n
    dropped,    \* timer: the Sleep future has been dropped
    droppedEarly, \* history: it was dropped while the state was not yet Done
    wakes,      \* history: the waker invocations, in order
    racy,       \* history: the state was read or written without the mutex held
    rres        \* subscribe_async_wait_handshake_timeout: position / outcome

codecVars == <<mp, dec, msg, enc, cpc>>

streamVars ==
    <<monq, dataq, nmon, ndata, nendpoints, hpc, connecting, hsSeen, discSeen,
      inner, fres, op, delivered>>

timerVars ==
    <<sleepState, lock, tpc, told, ppc, sres, npolls, dropped, droppedEarly, wakes,
      racy, rres>>

vars == <<codecVars, streamVars, timerVars>>

(***************************************************************************)
(* Program constants.                                                      *)
(***************************************************************************)
TOPIC_MAX_LEN == 9

SEQUENCE_LEN == 4

\* width of a 256 bit hash array, [u8; 32]
HashLen == 32

\* width of the zero padded wallet array, [u8; 32]
WalletPadLen == 32

(***************************************************************************)
(* Bounds of the sampled inputs.                                           *)
(***************************************************************************)
MaxFrames == 4

MaxTopicLen == 11

MaxDataLen == 34

MaxSeqLen == 5

MaxWalletLen == 33

MaxObjLen == 2

(***************************************************************************)
(* Byte sequences.                                                         *)
(***************************************************************************)
Min(a, b) == IF a <= b THEN a ELSE b

\* slice.reverse()
Reverse(s) == [i \in 1..Len(s) |-> s[Len(s) + 1 - i]]

\* &s[..n] for n <= len
Take(s, n) == SubSeq(s, 1, n)

\* &s[n..] for n <= len
Drop(s, n) == SubSeq(s, n + 1, Len(s))

\* [0; n]
Zeros(n) == [i \in 1..n |-> 0]

\* u32::from_le_bytes
from_le_bytes(b) == b[1] + 256 * b[2] + 65536 * b[3] + 16777216 * b[4]

\* u32::to_le_bytes
to_le_bytes(n) ==
    <<n % 256, (n \div 256) % 256, (n \div 65536) % 256, (n \div 16777216) % 256>>

(***************************************************************************)
(* Results: Ok(value), Err(error) or a panic (abort of the call).          *)
(***************************************************************************)
Ok(v) == [tag |-> "Ok", val |-> v]

Err(e) == [tag |-> "Err", err |-> e]

Panic == [tag |-> "Panic"]

NoResult == [tag |-> "None"]

InvalidMutlipartLength(n) == [kind |-> "InvalidMutlipartLength", len |-> n]

InvalidSequenceLength(n) == [kind |-> "InvalidSequenceLength", len |-> n]

Invalid256BitHashLength(n) == [kind |-> "Invalid256BitHashLength", len |-> n]

InvalidTopic(n, buf) == [kind |-> "InvalidTopic", len |-> n, buf |-> buf]

InvalidSequenceMessageLength(n) == [kind |-> "InvalidSequenceMessageLength", len |-> n]

InvalidSequenceMessageLabel(l) == [kind |-> "InvalidSequenceMessageLabel", len |-> l]

ConsensusDecodeError == [kind |-> "BitcoinDeserialization"]

(***************************************************************************)
(* Topics, as ASCII bytes.                                                 *)
(***************************************************************************)
T_hashblock == <<104, 97, 115, 104, 98, 108, 111, 99, 107>>

T_hashtx == <<104, 97, 115, 104, 116, 120>>

T_hashwtx == <<104, 97, 115, 104, 119, 116, 120>>

T_rawblock == <<114, 97, 119, 98, 108, 111, 99, 107>>

T_rawtx == <<114, 97, 119, 116, 120>>

T_sequence == <<115, 101, 113, 117, 101, 110, 99, 101>>

KnownTopics == {T_hashblock, T_hashtx, T_hashwtx, T_rawblock, T_rawtx, T_sequence}

(***************************************************************************)
(* Message: one record shape for the six variants; the fields a variant    *)
(* does not carry are empty.                                               *)
(*   hash   : the hash's byte array (to_byte_array / from_byte_array)      *)
(*   wallet : the bytes of the wallet String (HashWTx)                     *)
(*   obj    : the decoded Block or Transaction                             *)
(*   sm     : the SequenceMessage                                          *)
(***************************************************************************)
NoSm == [label |-> 0, hash |-> <<>>, mseq |-> <<>>]

HashBlock(h, seq) ==
    [kind |-> "HashBlock", hash |-> h, wallet |-> <<>>, obj |-> <<>>, sm |-> NoSm, seq |-> seq]

HashTx(h, seq) ==
    [kind |-> "HashTx", hash |-> h, wallet |-> <<>>, obj |-> <<>>, sm |-> NoSm, seq |-> seq]

HashWTx(h, w, seq) ==
    [kind |-> "HashWTx", hash |-> h, wallet |-> w, obj |-> <<>>, sm |-> NoSm, seq |-> seq]

Block(b, seq) ==
    [kind |-> "Block", hash |-> <<>>, wallet |-> <<>>, obj |-> b, sm |-> NoSm, seq |-> seq]

Tx(t, seq) ==
    [kind |-> "Tx", hash |-> <<>>, wallet |-> <<>>, obj |-> t, sm |-> NoSm, seq |-> seq]

Sequence(sm, seq) ==
    [kind |-> "Sequence", hash |-> <<>>, wallet |-> <<>>, obj |-> <<>>, sm |-> sm, seq |-> seq]

\* Message::topic
topic(m) ==
    CASE m.kind = "HashBlock" -> T_hashblock
      [] m.kind = "HashTx" -> T_hashtx
      [] m.kind = "HashWTx" -> T_hashwtx
      [] m.kind = "Block" -> T_rawblock
      [] m.kind = "Tx" -> T_rawtx
      [] m.kind = "Sequence" -> T_sequence

\* Message::sequence
sequence(m) == m.seq

(***************************************************************************)
(* The codecs message.rs calls and does not define.                        *)
(*                                                                         *)
(* bitcoin::consensus::{serialize, deserialize}: a decoded Block or        *)
(* Transaction is the sequence of its content bytes, and its wire form is  *)
(* one length byte followed by the content; bytes that are not of that     *)
(* form fail to decode.                                                    *)
(***************************************************************************)
consensus_serialize(o) == <<Len(o)>> \o o

consensus_deserialize(data) ==
    IF Len(data) >= 1 /\ data[1] = Len(data) - 1
    THEN Ok(Drop(data, 1))
    ELSE Err(ConsensusDecodeError)

(***************************************************************************)
(* SequenceMessage: a 32 byte hash in wire order, a label byte (C, D, R,   *)
(* A) and, for R and A, an 8 byte mempool sequence.                        *)
(***************************************************************************)
SmHashOnlyLabels == {67, 68}

SmMempoolLabels == {65, 82}

SequenceMessage_from_byte_slice(data) ==
    IF Len(data) < HashLen + 1
    THEN Err(InvalidSequenceMessageLength(Len(data)))
    ELSE LET label == data[HashLen + 1]
             hash == Reverse(Take(data, HashLen))
         IN  CASE label \in SmHashOnlyLabels ->
                    IF Len(data) = HashLen + 1
                    THEN Ok([label |-> label, hash |-> hash, mseq |-> <<>>])
                    ELSE Err(InvalidSequenceMessageLength(Len(data)))
               [] label \in SmMempoolLabels ->
                    IF Len(data) = HashLen + 9
                    THEN Ok([label |-> label, hash |-> hash,
                             mseq |-> Drop(data, HashLen + 1)])
                    ELSE Err(InvalidSequenceMessageLength(Len(data)))
               [] OTHER -> Err(InvalidSequenceMessageLabel(label))

SequenceMessage_serialize_to_vec(sm) == Reverse(sm.hash) \o <<sm.label>> \o sm.mseq

(***************************************************************************)
(* String::from_utf8_lossy on the sampled byte alphabet: an ASCII byte is  *)
(* kept, a byte that can start no UTF-8 sequence (0xFF) becomes U+FFFD     *)
(* (EF BF BD).                                                             *)
(***************************************************************************)
RECURSIVE from_utf8_lossy(_)
from_utf8_lossy(b) ==
    IF b = <<>> THEN <<>>
    ELSE (IF Head(b) < 128 THEN <<Head(b)>> ELSE <<239, 191, 189>>)
         \o from_utf8_lossy(Tail(b))

(***************************************************************************)
(* Encoding.                                                               *)
(***************************************************************************)
\* message.rs 58-77: the HashWTx arm of the inner match, whose value is the
\* [u8; 32] that `arr` is declared as
HashWTxArr(m) ==
    IF Len(m.wallet) > WalletPadLen
    THEN Panic      \* padded_wallet[..wallet_bytes.len()]: range end out of bounds
    ELSE LET padded_wallet == m.wallet \o Zeros(WalletPadLen - Len(m.wallet))
             result == m.hash \o padded_wallet
         IN  IF Len(result) = HashLen
             THEN Ok(result)
             ELSE Panic   \* try_into::<[u8; 32]>() fails: unwrap_or_else panics

\* Message::serialize_data_to_vec: Ok(bytes), or Panic
serialize_data_to_vec(m) ==
    CASE m.kind \in {"HashBlock", "HashTx"} -> Ok(Reverse(m.hash))
      [] m.kind = "HashWTx" ->
            LET arr == HashWTxArr(m)
            IN  IF arr.tag = "Panic" THEN Panic ELSE Ok(Reverse(arr.val))
      [] m.kind \in {"Block", "Tx"} -> Ok(consensus_serialize(m.obj))
      [] m.kind = "Sequence" -> Ok(SequenceMessage_serialize_to_vec(m.sm))

\* Message::serialize_to_vecs
serialize_to_vecs(m) ==
    LET data == serialize_data_to_vec(m)
    IN  IF data.tag = "Panic" THEN Panic
        ELSE Ok(<<topic(m), data.val, to_le_bytes(sequence(m))>>)

(***************************************************************************)
(* Decoding.                                                               *)
(***************************************************************************)
\* faulty variant: the copy stops one byte short
InvalidTopicBuf_short(t) ==
    [i \in 1..TOPIC_MAX_LEN |->
        IF i < Min(TOPIC_MAX_LEN, Len(t)) THEN t[i] ELSE 0]

\* message.rs 171-176: the 9 byte snapshot of an unknown topic
InvalidTopicBuf(t) ==
    [i \in 1..TOPIC_MAX_LEN |->
        IF i <= Min(TOPIC_MAX_LEN, Len(t)) THEN t[i] ELSE 0]

\* faulty variant: data.reverse() left out
from_parts_hash_noreverse(t, data, seq) ==
    IF Len(data) # HashLen
    THEN Err(Invalid256BitHashLength(Len(data)))
    ELSE IF t = T_hashblock THEN Ok(HashBlock(data, seq)) ELSE Ok(HashTx(data, seq))

\* faulty variant: the hash read from the first 32 bytes, as the hashwtx arm does
from_parts_hash_prefix(t, data, seq) ==
    IF Len(data) < HashLen
    THEN Err(Invalid256BitHashLength(Len(data)))
    ELSE LET rev == Reverse(Take(data, HashLen))
         IN  IF t = T_hashblock THEN Ok(HashBlock(rev, seq)) ELSE Ok(HashTx(rev, seq))

\* message.rs 142-152
from_parts_hash(t, data, seq) ==
    IF Len(data) # HashLen
    THEN Err(Invalid256BitHashLength(Len(data)))
    ELSE LET rev == Reverse(data)
         IN  IF t = T_hashblock THEN Ok(HashBlock(rev, seq)) ELSE Ok(HashTx(rev, seq))

\* message.rs 156-169
from_parts_hashwtx(data, seq) ==
    IF Len(data) < HashLen
    THEN Panic      \* data[..32]: range end out of bounds
    ELSE LET txid_bytes == Take(data, HashLen)
             wallet_bytes == Drop(data, HashLen)
         IN  Ok(HashWTx(txid_bytes, from_utf8_lossy(wallet_bytes), seq))

\* Message::from_parts
from_parts(t, data, seqbytes) ==
    LET seq == from_le_bytes(seqbytes)
    IN  CASE t \in {T_hashblock, T_hashtx} -> from_parts_hash(t, data, seq)
          [] t = T_rawblock ->
                LET r == consensus_deserialize(data)                \* the `?`
                IN  IF r.tag = "Ok" THEN Ok(Block(r.val, seq)) ELSE r
          [] t = T_rawtx ->
                LET r == consensus_deserialize(data)
                IN  IF r.tag = "Ok" THEN Ok(Tx(r.val, seq)) ELSE r
          [] t = T_sequence ->
                LET r == SequenceMessage_from_byte_slice(data)
                IN  IF r.tag = "Ok" THEN Ok(Sequence(r.val, seq)) ELSE r
          [] t = T_hashwtx -> from_parts_hashwtx(data, seq)
          [] OTHER -> Err(InvalidTopic(Len(t), InvalidTopicBuf(t)))

\* faulty variant: the topic looked at before the sequence frame's length
from_fixed_size_multipart_topicfirst(m) ==
    IF m[1] \notin KnownTopics
    THEN Err(InvalidTopic(Len(m[1]), InvalidTopicBuf(m[1])))
    ELSE IF Len(m[3]) # SEQUENCE_LEN
    THEN Err(InvalidSequenceLength(Len(m[3])))
    ELSE from_parts(m[1], m[2], m[3])

\* Message::from_fixed_size_multipart
from_fixed_size_multipart(m) ==
    IF Len(m[3]) # SEQUENCE_LEN
    THEN Err(InvalidSequenceLength(Len(m[3])))
    ELSE from_parts(m[1], m[2], m[3])

\* faulty variant: frames after the third are ignored
from_multipart_atleast3(m) ==
    IF Len(m) < 3
    THEN Err(InvalidMutlipartLength(Len(m)))
    ELSE from_fixed_size_multipart(m)

\* Message::from_multipart
from_multipart(m) ==
    IF Len(m) # 3
    THEN Err(InvalidMutlipartLength(Len(m)))
    ELSE from_fixed_size_multipart(m)

(***************************************************************************)
(* Sampled inputs of the codec.  Frames are cut from byte patterns that    *)
(* are not palindromes, so that a reversal shows.  Sequence frames use     *)
(* bytes below 128 (sequence numbers below 2^31).                          *)
(***************************************************************************)
Pat(p, i) ==
    CASE p = 1 -> (7 * i + 3) % 128
      [] p = 2 -> (11 * i + 40) % 128
      [] OTHER -> IF i % 3 = 0 THEN 255 ELSE (5 * i) % 128

Frame(p, n) == [i \in 1..n |-> Pat(p, i)]

\* "hashblock!abcd" and "too long so gets"
TopicBases ==
    { <<104, 97, 115, 104, 98, 108, 111, 99, 107, 33, 97, 98, 99, 100>>,
      <<116, 111, 111, 32, 108, 111, 110, 103, 32, 115, 111, 32, 103, 101, 116, 115>> }

TopicInputs ==
    KnownTopics \cup {Take(b, Min(n, Len(b))) : b \in TopicBases, n \in 0..MaxTopicLen}

SeqInputs == {Frame(p, n) : p \in {1, 2}, n \in 0..MaxSeqLen}

ObjInputs == {Frame(p, n) : p \in {1, 2}, n \in 0..MaxObjLen}

SmInputs ==
    {[label |-> 67, hash |-> Frame(1, HashLen), mseq |-> <<>>],
     [label |-> 68, hash |-> Frame(2, HashLen), mseq |-> <<>>],
     [label |-> 65, hash |-> Frame(1, HashLen), mseq |-> Frame(2, 8)],
     [label |-> 82, hash |-> Frame(2, HashLen), mseq |-> Frame(1, 8)]}

\* wallet names: ASCII letters
WalletInputs == {[i \in 1..n |-> 97 + (i % 26)] : n \in 0..MaxWalletLen}

\* data frames: every length up to the bound, and the well-formed payloads
DataInputs ==
    {Frame(p, n) : p \in {1, 3}, n \in 0..MaxDataLen}
    \cup {consensus_serialize(o) : o \in ObjInputs}
    \cup {SequenceMessage_serialize_to_vec(sm) : sm \in SmInputs}
    \cup {Frame(2, HashLen) \o w \o Zeros(WalletPadLen - Len(w)) :
            w \in {x \in WalletInputs : Len(x) <= WalletPadLen /\ Len(x) <= 2}}

DataFew == {Frame(1, n) : n \in {0, 20, HashLen}} \cup {consensus_serialize(Frame(1, 1))}

\* "garbage"
Garbage == <<103, 97, 114, 98, 97, 103, 101>>

Resize(g, n) == IF n <= 3 THEN Take(g, n) ELSE g \o [i \in 1..(n - 3) |-> Garbage]

MultipartInputs ==
    {<<t, d, s>> : t \in TopicInputs, d \in DataInputs, s \in SeqInputs}
    \cup {Resize(<<t, d, s>>, n) :
            t \in TopicInputs, d \in DataFew, s \in SeqInputs, n \in (0..MaxFrames) \ {3}}

SeqNumInputs == {0, 3} \cup {from_le_bytes(Frame(p, SEQUENCE_LEN)) : p \in {1, 2}}

MessageInputs ==
    {HashBlock(Frame(p, HashLen), n) : p \in {1, 2, 3}, n \in SeqNumInputs}
    \cup {HashTx(Frame(p, HashLen), n) : p \in {1, 2, 3}, n \in SeqNumInputs}
    \cup {HashWTx(Frame(p, HashLen), w, n) : p \in {1, 2}, w \in WalletInputs, n \in SeqNumInputs}
    \cup {Block(o, n) : o \in ObjInputs, n \in SeqNumInputs}
    \cup {Tx(o, n) : o \in ObjInputs, n \in SeqNumInputs}
    \cup {Sequence(sm, n) : sm \in SmInputs, n \in SeqNumInputs}

(***************************************************************************)
(* The codec as a state machine: a caller decodes a frame group and may    *)
(* encode the Message it got, or encodes a Message and may decode the      *)
(* frames it got.                                                          *)
(***************************************************************************)
NoMsg == [kind |-> "None"]

CodecInit ==
    /\ mp = <<>>
    /\ dec = NoResult
    /\ msg = NoMsg
    /\ enc = NoResult
    /\ cpc = "idle"

StreamInit ==
    /\ monq = <<>>
    /\ dataq = <<>>
    /\ nmon = 0
    /\ ndata = 0
    /\ nendpoints = 0
    /\ hpc = "start"
    /\ connecting = 0
    /\ hsSeen = 0
    /\ discSeen = 0
    /\ inner = "Unbuilt"
    /\ fres = NoResult
    /\ op = "init"
    /\ delivered = <<>>

\* SleepReadyState
SleepPending == [s |-> "Pending"]

SleepPendingPolled(w) == [s |-> "PendingPolled", waker |-> w]

SleepDone == [s |-> "Done"]

TimerInit ==
    /\ sleepState = SleepPending
    /\ lock = "free"
    /\ tpc = "unspawned"
    /\ told = SleepPending
    /\ ppc = "idle"
    /\ sres = NoResult
    /\ npolls = 0
    /\ dropped = FALSE
    /\ droppedEarly = FALSE
    /\ wakes = <<>>
    /\ racy = FALSE
    /\ rres = "unstarted"

Init == CodecInit /\ StreamInit /\ TimerInit

\* Message::from_multipart(mp) on a received frame group
DecodeInput ==
    /\ cpc = "idle"
    /\ \E m \in MultipartInputs :
        /\ mp' = m
        /\ dec' = from_multipart(m)
    /\ cpc' = "decoded"
    /\ UNCHANGED <<msg, enc, streamVars, timerVars>>

\* msg.serialize_to_vecs() on the Message just decoded
Reencode ==
    /\ cpc = "decoded"
    /\ dec.tag = "Ok"
    /\ msg' = dec.val
    /\ enc' = serialize_to_vecs(dec.val)
    /\ cpc' = "reencoded"
    /\ UNCHANGED <<mp, dec, streamVars, timerVars>>

\* v.serialize_to_vecs() on a constructed Message
EncodeInput ==
    /\ cpc = "idle"
    /\ \E v \in MessageInputs :
        /\ msg' = v
        /\ enc' = serialize_to_vecs(v)
    /\ cpc' = "encoded"
    /\ UNCHANGED <<mp, dec, streamVars, timerVars>>

\* Message::from_multipart on the three frames just encoded
Redecode ==
    /\ cpc = "encoded"
    /\ enc.tag = "Ok"
    /\ mp' = enc.val
    /\ dec' = from_multipart(enc.val)
    /\ cpc' = "redecoded"
    /\ UNCHANGED <<msg, enc, streamVars, timerVars>>

CodecNext == DecodeInput \/ Reencode \/ EncodeInput \/ Redecode

SpecCodec == Init /\ [][CodecNext]_vars

(***************************************************************************)
(* Streams (subscribe/stream.rs).                                          *)
(*                                                                         *)
(* The two ZMQ sockets are queues of ready items.  A monitor item is the   *)
(* kind of the connection event its frames decode to ("Connected" stands   *)
(* for every kind other than HandshakeSucceeded and Disconnected), "Err"   *)
(* for a transport error, "End" for the end of the underlying stream       *)
(* (None).  A data item is a frame group that decodes ("Good", with the    *)
(* identity of its notification), one that does not ("Malformed"), a       *)
(* transport error ("Err") or the end of the underlying stream ("End").    *)
(***************************************************************************)
MaxEndpoints == 2

MaxMonitorItems == 3

MaxDataItems == 2

MaxPolls == 3

MonitorItems == {"HandshakeSucceeded", "Disconnected", "Connected", "Err", "End"}

DataItems(n) == {[k |-> "Good", id |-> n], [k |-> "Malformed"], [k |-> "Err"], [k |-> "End"]}

\* Poll<Option<Result<..>>>, or the poll aborting
Pending == [poll |-> "Pending"]

ReadyNone == [poll |-> "Ready", opt |-> "None"]

ReadySome(item) == [poll |-> "Ready", opt |-> "Some", item |-> item]

PollPanic == [poll |-> "Panic"]

TransportError == [kind |-> "Zmq"]

DecodeError == [kind |-> "Decode"]

Message(id) == [sm |-> "Message", id |-> id]

Event(kind) == [sm |-> "Event", event |-> kind]

\* recv_internal: the frame codec applied to a received frame group
recv_internal(it) == IF it.k = "Good" THEN Ok(Message(it.id)) ELSE Err(DecodeError)

\* MessageStream::poll_next: the result and the data queue left
MessageStream_poll_next(dq) ==
    IF dq = <<>>
    THEN [res |-> Pending, dataq |-> dq]
    ELSE LET it == Head(dq)
         IN  [res |-> CASE it.k = "End" -> ReadyNone
                        [] it.k = "Err" -> ReadySome(Err(TransportError))
                        [] OTHER -> ReadySome(recv_internal(it)),
              dataq |-> Tail(dq)]

\* faulty variant: the data stream is polled first
SocketMessageStream_poll_next_datafirst(mq, dq) ==
    IF dq # <<>>
    THEN LET m == MessageStream_poll_next(dq)
         IN  [res |-> m.res, monq |-> mq, dataq |-> m.dataq]
    ELSE IF mq # <<>>
    THEN [res |-> CASE Head(mq) = "End" -> PollPanic
                    [] Head(mq) = "Err" -> ReadySome(Err(TransportError))
                    [] OTHER -> ReadySome(Ok(Event(Head(mq)))),
          monq |-> Tail(mq), dataq |-> dq]
    ELSE [res |-> Pending, monq |-> mq, dataq |-> dq]

\* SocketMessageStream::poll_next: the result and the two queues left
SocketMessageStream_poll_next(mq, dq) ==
    IF mq # <<>>
    THEN [res |-> CASE Head(mq) = "End" -> PollPanic       \* msg.unwrap() on None
                    [] Head(mq) = "Err" -> ReadySome(Err(TransportError))
                    [] OTHER -> ReadySome(Ok(Event(Head(mq)))),
          monq |-> Tail(mq), dataq |-> dq]
    ELSE LET m == MessageStream_poll_next(dq)
         IN  [res |-> m.res, monq |-> mq, dataq |-> m.dataq]

\* the loop of FiniteMessageStream::poll_next over an inner stream that is
\* present: the result, the queues left, and what inner is afterwards
RECURSIVE FiniteLoop(_, _)
FiniteLoop(mq, dq) ==
    LET p == SocketMessageStream_poll_next(mq, dq)
        out(r, i) == [res |-> r, monq |-> p.monq, dataq |-> p.dataq, inner |-> i]
    IN  CASE p.res = Pending -> out(Pending, "Some")
          [] p.res = PollPanic -> out(PollPanic, "Some")
          [] p.res = ReadyNone -> out(PollPanic, "Some")       \* opt.unwrap() on None
          [] OTHER ->
                IF p.res.item.tag = "Err"
                THEN out(ReadySome(p.res.item), "Some")         \* the `?`
                ELSE IF p.res.item.val.sm = "Message"
                THEN out(ReadySome(Ok(p.res.item.val.id)), "Some")
                ELSE IF p.res.item.val.event = "Disconnected"
                THEN out(ReadyNone, "None")                     \* self.inner = None
                ELSE FiniteLoop(p.monq, p.dataq)

\* faulty variant: the poll gives up after one event it passes over
FinitePoll_onepass(in, mq, dq) ==
    IF in = "Some"
    THEN IF mq # <<>> /\ Head(mq) \in {"HandshakeSucceeded", "Connected"}
         THEN [res |-> Pending, monq |-> Tail(mq), dataq |-> dq, inner |-> in]
         ELSE FiniteLoop(mq, dq)
    ELSE [res |-> ReadyNone, monq |-> mq, dataq |-> dq, inner |-> in]

\* faulty variant: an error item closes the stream
FinitePoll_errcloses(in, mq, dq) ==
    IF in = "Some"
    THEN LET r == FiniteLoop(mq, dq)
         IN  IF r.res # Pending /\ r.res # PollPanic /\ r.res # ReadyNone
                /\ r.res.item.tag = "Err"
             THEN [r EXCEPT !.inner = "None"]
             ELSE r
    ELSE [res |-> ReadyNone, monq |-> mq, dataq |-> dq, inner |-> in]

\* faulty variant: `self.inner = None` left out
FinitePoll_nodrop(in, mq, dq) ==
    IF in = "Some"
    THEN [FiniteLoop(mq, dq) EXCEPT !.inner = "Some"]
    ELSE [res |-> ReadyNone, monq |-> mq, dataq |-> dq, inner |-> in]

\* FiniteMessageStream::poll_next
FinitePoll(in, mq, dq) ==
    IF in = "Some"
    THEN FiniteLoop(mq, dq)
    ELSE [res |-> ReadyNone, monq |-> mq, dataq |-> dq, inner |-> in]

\* FiniteMessageStream::is_terminated
is_terminated == inner = "None"

\* faulty variant: a Disconnected event is ignored like the other kinds
connecting_after_nodisc(e, c) ==
    CASE e = "HandshakeSucceeded" -> c - 1
      [] OTHER -> c

\* one arm of the match in subscribe_async_wait_handshake: the new value of
\* `connecting` after an event of kind e
connecting_after(e, c) ==
    CASE e = "HandshakeSucceeded" -> c - 1
      [] e = "Disconnected" -> c + 1
      [] OTHER -> c

\* the sockets exist and their owner has neither dropped them nor aborted
SocketsOpen ==
    /\ hpc \in {"waiting", "ok", "merged"}
    /\ inner # "None"
    /\ fres # PollPanic

\* the transport makes a connection event (or its failure) ready
MonitorArrive ==
    /\ SocketsOpen
    /\ nmon < MaxMonitorItems
    /\ \E e \in MonitorItems : monq' = Append(monq, e)
    /\ nmon' = nmon + 1
    /\ op' = "arrive"
    /\ UNCHANGED <<dataq, ndata, nendpoints, hpc, connecting, hsSeen, discSeen, inner, fres, delivered>>
    /\ UNCHANGED <<codecVars, timerVars>>

\* the transport makes a data frame group (or its failure) ready
DataArrive ==
    /\ SocketsOpen
    /\ ndata < MaxDataItems
    /\ \E d \in DataItems(ndata + 1) : dataq' = Append(dataq, d)
    /\ ndata' = ndata + 1
    /\ op' = "arrive"
    /\ UNCHANGED <<monq, nmon, nendpoints, hpc, connecting, hsSeen, discSeen, inner, fres, delivered>>
    /\ UNCHANGED <<codecVars, timerVars>>

\* faulty variant: the early return for an empty endpoint list is left out
HandshakeStart_noearlyreturn ==
    /\ hpc = "start"
    /\ \E n \in 0..MaxEndpoints, setup_ok \in BOOLEAN :
        /\ nendpoints' = n
        /\ IF ~setup_ok
           THEN /\ hpc' = "err"
                /\ UNCHANGED <<connecting, inner>>
           ELSE /\ connecting' = n
                /\ hpc' = "waiting"
                /\ UNCHANGED inner
    /\ op' = "start"
    /\ UNCHANGED <<monq, dataq, nmon, ndata, hsSeen, discSeen, fres, delivered>>
    /\ UNCHANGED <<codecVars, timerVars>>

\* subscribe_async_wait_handshake up to its first await (stream.rs 275-280)
HandshakeStart ==
    /\ hpc = "start"
    /\ \E n \in 0..MaxEndpoints, setup_ok \in BOOLEAN :
        /\ nendpoints' = n
        /\ IF ~setup_ok
           THEN /\ hpc' = "err"                      \* subscribe_async_monitor(..)?
                /\ UNCHANGED <<connecting, inner>>
           ELSE /\ connecting' = n
                /\ hpc' = IF n = 0 THEN "ok" ELSE "waiting"
                /\ inner' = IF n = 0 THEN "Some" ELSE inner
    /\ op' = "start"
    /\ UNCHANGED <<monq, dataq, nmon, ndata, hsSeen, discSeen, fres, delivered>>
    /\ UNCHANGED <<codecVars, timerVars>>

\* faulty variant: each turn of the loop also takes an item from the data stream
HandshakeStep_takesdata ==
    /\ hpc = "waiting"
    /\ monq # <<>>
    /\ LET e == Head(monq)
           c == connecting_after(e, connecting)
       IN  /\ monq' = Tail(monq)
           /\ CASE e = "End" ->                       \* .unwrap() on None
                    /\ hpc' = "panic"
                    /\ UNCHANGED <<connecting, hsSeen, discSeen, inner>>
                [] e = "Err" ->                       \* the `?`
                    /\ hpc' = "err"
                    /\ UNCHANGED <<connecting, hsSeen, discSeen, inner>>
                [] e \in {"HandshakeSucceeded", "Disconnected"} ->
                    /\ connecting' = c
                    /\ hsSeen' = IF e = "HandshakeSucceeded" THEN hsSeen + 1 ELSE hsSeen
                    /\ discSeen' = IF e = "Disconnected" THEN discSeen + 1 ELSE discSeen
                    /\ hpc' = IF c = 0 THEN "ok" ELSE "waiting"
                    /\ inner' = IF c = 0 THEN "Some" ELSE inner
                [] OTHER ->                           \* continue
                    /\ connecting' = c
                    /\ UNCHANGED <<hpc, hsSeen, discSeen, inner>>
    /\ op' = "handshake"
    /\ dataq' = IF dataq = <<>> THEN dataq ELSE Tail(dataq)
    /\ UNCHANGED <<nmon, ndata, nendpoints, fres, delivered>>
    /\ UNCHANGED <<codecVars, timerVars>>

\* one turn of the loop of subscribe_async_wait_handshake (stream.rs 282-298)
HandshakeStep ==
    /\ hpc = "waiting"
    /\ monq # <<>>
    /\ LET e == Head(monq)
           c == connecting_after(e, connecting)
       IN  /\ monq' = Tail(monq)
           /\ CASE e = "End" ->                       \* .unwrap() on None
                    /\ hpc' = "panic"
                    /\ UNCHANGED <<connecting, hsSeen, discSeen, inner>>
                [] e = "Err" ->                       \* the `?`
                    /\ hpc' = "err"
                    /\ UNCHANGED <<connecting, hsSeen, discSeen, inner>>
                [] e \in {"HandshakeSucceeded", "Disconnected"} ->
                    /\ connecting' = c
                    /\ hsSeen' = IF e = "HandshakeSucceeded" THEN hsSeen + 1 ELSE hsSeen
                    /\ discSeen' = IF e = "Disconnected" THEN discSeen + 1 ELSE discSeen
                    /\ hpc' = IF c = 0 THEN "ok" ELSE "waiting"
                    /\ inner' = IF c = 0 THEN "Some" ELSE inner
                [] OTHER ->                           \* continue
                    /\ connecting' = c
                    /\ UNCHANGED <<hpc, hsSeen, discSeen, inner>>
    /\ op' = "handshake"
    /\ UNCHANGED <<dataq, nmon, ndata, nendpoints, fres, delivered>>
    /\ UNCHANGED <<codecVars, timerVars>>

\* history of a poll: an item it returned is recorded, with the number of data
\* frame groups (0 or 1) the poll took from the SUB socket for it
delivered_after(d, r, dq) ==
    IF r.res # Pending /\ r.res # PollPanic /\ r.res # ReadyNone
    THEN Append(d, [item |-> r.res.item, data |-> Len(dq) - Len(r.dataq)])
    ELSE d

\* a caller polls the FiniteMessageStream it was given
FiniteMessageStream_poll_next ==
    /\ hpc = "ok"
    /\ fres # PollPanic
    /\ LET r == FinitePoll(inner, monq, dataq)
       IN  /\ fres' = r.res
           /\ monq' = r.monq
           /\ dataq' = r.dataq
           /\ inner' = r.inner
           /\ delivered' = delivered_after(delivered, r, dataq)
    /\ op' = "poll"
    /\ UNCHANGED <<nmon, ndata, nendpoints, hpc, connecting, hsSeen, discSeen>>
    /\ UNCHANGED <<codecVars, timerVars>>

StreamNext ==
    \/ MonitorArrive
    \/ DataArrive
    \/ HandshakeStart
    \/ HandshakeStep
    \/ FiniteMessageStream_poll_next

SpecStream == Init /\ [][StreamNext]_vars

(***************************************************************************)
(* The Monitor-Merged Stream polled by its caller.                         *)
(***************************************************************************)
\* MessageStream::is_terminated (stream.rs 58-62)
MessageStream_is_terminated == FALSE

\* SocketMessageStream::is_terminated (stream.rs 105-109)
SocketMessageStream_is_terminated == FALSE

\* subscribe_async_monitor (stream.rs 225-237)
subscribe_async_monitor ==
    /\ hpc = "start"
    /\ \E n \in 0..MaxEndpoints, setup_ok \in BOOLEAN :
        /\ nendpoints' = n
        /\ hpc' = IF setup_ok THEN "merged" ELSE "err"
    /\ op' = "start"
    /\ UNCHANGED <<monq, dataq, nmon, ndata, connecting, hsSeen, discSeen, inner, fres,
                   delivered>>
    /\ UNCHANGED <<codecVars, timerVars>>

\* a caller polls the SocketMessageStream it was given
SocketMessageStream_poll ==
    /\ hpc = "merged"
    /\ fres # PollPanic
    /\ LET r == SocketMessageStream_poll_next(monq, dataq)
       IN  /\ fres' = r.res
           /\ monq' = r.monq
           /\ dataq' = r.dataq
    /\ op' = "mpoll"
    /\ UNCHANGED <<nmon, ndata, nendpoints, hpc, connecting, hsSeen, discSeen, inner,
                   delivered>>
    /\ UNCHANGED <<codecVars, timerVars>>

MergedNext ==
    \/ subscribe_async_monitor
    \/ MonitorArrive
    \/ DataArrive
    \/ SocketMessageStream_poll

SpecMerged == Init /\ [][MergedNext]_vars

(***************************************************************************)
(* The Timer: sleep(dur) spawns a thread that shares a mutex-guarded       *)
(* SleepReadyState with the Sleep future it returns.  A step of the thread *)
(* or of Sleep::poll is one statement; the mutex is a variable, so the     *)
(* interleavings of the two sides are those the lock allows.  The n-th     *)
(* call of Sleep::poll is given waker n.                                   *)
(***************************************************************************)
SleepReady == [poll |-> "Ready", unit |-> TRUE]

\* sleep(dur) up to thread::spawn (stream.rs 315-319, 331)
sleep ==
    /\ tpc = "unspawned"
    /\ tpc' = "sleeping"
    /\ UNCHANGED <<sleepState, lock, told, ppc, sres, npolls, dropped, droppedEarly,
                   wakes, racy, rres>>
    /\ UNCHANGED <<codecVars, streamVars>>

\* thread::sleep(dur) returns (stream.rs 320)
Thread_sleep_elapsed ==
    /\ tpc = "sleeping"
    /\ tpc' = "lock"
    /\ UNCHANGED <<sleepState, lock, told, ppc, sres, npolls, dropped, droppedEarly,
                   wakes, racy, rres>>
    /\ UNCHANGED <<codecVars, streamVars>>

\* state.lock().unwrap() in the thread (stream.rs 322)
Thread_lock ==
    /\ tpc = "lock"
    /\ lock = "free"
    /\ lock' = "thread"
    /\ tpc' = "replace"
    /\ UNCHANGED <<sleepState, told, ppc, sres, npolls, dropped, droppedEarly, wakes,
                   racy, rres>>
    /\ UNCHANGED <<codecVars, streamVars>>

\* faulty variant: the waker is invoked with the guard still alive
Thread_replace_wakelocked ==
    /\ tpc = "replace"
    /\ told' = sleepState
    /\ sleepState' = SleepDone
    /\ racy' = (racy \/ lock # "thread")
    /\ tpc' = "wake"
    /\ UNCHANGED <<lock, ppc, sres, npolls, dropped, droppedEarly, wakes, rres>>
    /\ UNCHANGED <<codecVars, streamVars>>

\* mem::replace(&mut *g, SleepReadyState::Done) (stream.rs 323)
Thread_replace ==
    /\ tpc = "replace"
    /\ told' = sleepState
    /\ sleepState' = SleepDone
    /\ racy' = (racy \/ lock # "thread")
    /\ tpc' = "unlock"
    /\ UNCHANGED <<lock, ppc, sres, npolls, dropped, droppedEarly, wakes, rres>>
    /\ UNCHANGED <<codecVars, streamVars>>

\* the guard g goes out of scope (stream.rs 324)
Thread_unlock ==
    /\ tpc = "unlock"
    /\ lock' = "free"
    /\ tpc' = "wake"
    /\ UNCHANGED <<sleepState, told, ppc, sres, npolls, dropped, droppedEarly, wakes,
                   racy, rres>>
    /\ UNCHANGED <<codecVars, streamVars>>

\* one invocation of a waker, with what held when it was made
WakeRecord(w) ==
    [waker |-> w, locked |-> (lock = "thread"), flag |-> sleepState.s,
     dropped |-> dropped]

\* if let PendingPolled(waker) = state { waker.wake() }, then the thread ends
\* (stream.rs 325-328)
Thread_wake ==
    /\ tpc = "wake"
    /\ wakes' = IF told.s = "PendingPolled"
                THEN Append(wakes, WakeRecord(told.waker))
                ELSE wakes
    /\ tpc' = "exit"
    /\ UNCHANGED <<sleepState, lock, told, ppc, sres, npolls, dropped, droppedEarly,
                   racy, rres>>
    /\ UNCHANGED <<codecVars, streamVars>>

\* Sleep::poll: self.0.lock().unwrap() (stream.rs 346)
Sleep_poll_lock ==
    /\ tpc # "unspawned"
    /\ ~dropped
    /\ ppc = "idle"
    /\ npolls < MaxPolls
    /\ lock = "free"
    /\ lock' = "poller"
    /\ ppc' = "locked"
    /\ npolls' = npolls + 1
    /\ sres' = NoResult
    /\ UNCHANGED <<sleepState, tpc, told, dropped, droppedEarly, wakes, racy, rres>>
    /\ UNCHANGED <<codecVars, streamVars>>

\* faulty variant: the state is not tested before the waker is stored
Sleep_poll_body_overwrite ==
    /\ ppc = "locked"
    /\ racy' = (racy \/ lock # "poller")
    /\ sleepState' = SleepPendingPolled(npolls)
    /\ sres' = Pending
    /\ ppc' = "unlock"
    /\ UNCHANGED <<lock, tpc, told, npolls, dropped, droppedEarly, wakes, rres>>
    /\ UNCHANGED <<codecVars, streamVars>>

\* faulty variant: the waker is not stored
Sleep_poll_body_nowaker ==
    /\ ppc = "locked"
    /\ racy' = (racy \/ lock # "poller")
    /\ sres' = IF sleepState = SleepDone THEN SleepReady ELSE Pending
    /\ ppc' = "unlock"
    /\ UNCHANGED <<sleepState, lock, tpc, told, npolls, dropped, droppedEarly, wakes,
                   rres>>
    /\ UNCHANGED <<codecVars, streamVars>>

\* Sleep::poll: the test of *g and the branch taken (stream.rs 347-352)
Sleep_poll_body ==
    /\ ppc = "locked"
    /\ racy' = (racy \/ lock # "poller")
    /\ IF sleepState = SleepDone
       THEN /\ sres' = SleepReady
            /\ UNCHANGED sleepState
       ELSE /\ sleepState' = SleepPendingPolled(npolls)
            /\ sres' = Pending
    /\ ppc' = "unlock"
    /\ UNCHANGED <<lock, tpc, told, npolls, dropped, droppedEarly, wakes, rres>>
    /\ UNCHANGED <<codecVars, streamVars>>

\* Sleep::poll returns and its guard is dropped (stream.rs 353)
Sleep_poll_return ==
    /\ ppc = "unlock"
    /\ lock' = "free"
    /\ ppc' = "idle"
    /\ UNCHANGED <<sleepState, tpc, told, sres, npolls, dropped, droppedEarly, wakes,
                   racy, rres>>
    /\ UNCHANGED <<codecVars, streamVars>>

\* the owner of the Sleep drops it; Sleep has no Drop of its own, so only the
\* owner's reference to the shared state goes away (stream.rs 340)
Sleep_drop ==
    /\ tpc # "unspawned"
    /\ ~dropped
    /\ ppc = "idle"
    /\ dropped' = TRUE
    /\ droppedEarly' = (sleepState # SleepDone)
    /\ UNCHANGED <<sleepState, lock, tpc, told, ppc, sres, npolls, wakes, racy, rres>>
    /\ UNCHANGED <<codecVars, streamVars>>

ThreadNext ==
    \/ Thread_sleep_elapsed
    \/ Thread_lock
    \/ Thread_replace
    \/ Thread_unlock
    \/ Thread_wake

TimerNext ==
    \/ sleep
    \/ ThreadNext
    \/ Sleep_poll_lock
    \/ Sleep_poll_body
    \/ Sleep_poll_return
    \/ Sleep_drop

\* the spawned thread is an operating-system thread and is scheduled; a call
\* of Sleep::poll that has taken the mutex runs to its return
TimerFairness ==
    /\ WF_vars(ThreadNext)
    /\ WF_vars(Sleep_poll_body)
    /\ WF_vars(Sleep_poll_return)

SpecTimer == Init /\ [][TimerNext]_vars /\ TimerFairness

(***************************************************************************)
(* subscribe_async_wait_handshake_timeout: select(subscribe, timeout).     *)
(* A poll of the select polls the handshake wait first, which runs its     *)
(* loop over the connection events that are ready, and polls the Sleep     *)
(* only when the handshake wait is pending.                                *)
(***************************************************************************)
\* the select polls its first future: it has not returned, and no poll of
\* the second future is under way
select_polls_subscribe ==
    /\ rres = "running"
    /\ ppc = "idle"
    /\ sres # SleepReady

\* faulty variant: the Sleep is polled without the handshake wait having been
\* polled first
select_polls_sleep_timerfirst ==
    /\ rres = "running"

\* the select polls its second future: the first one returned Pending
select_polls_sleep ==
    /\ rres = "running"
    /\ hpc = "waiting"
    /\ monq = <<>>
    /\ sres # SleepReady

\* the two futures are made (stream.rs 306-307)
TimeoutStart ==
    /\ rres = "unstarted"
    /\ tpc = "unspawned"
    /\ hpc = "start"
    /\ rres' = "running"
    /\ tpc' = "sleeping"
    /\ UNCHANGED <<sleepState, lock, told, ppc, sres, npolls, dropped, droppedEarly,
                   wakes, racy>>
    /\ UNCHANGED <<codecVars, streamVars>>

TimeoutMonitorArrive == rres = "running" /\ MonitorArrive

TimeoutHandshakeStart == select_polls_subscribe /\ HandshakeStart

TimeoutHandshakeStep == select_polls_subscribe /\ HandshakeStep

TimeoutSleepPoll == select_polls_sleep /\ Sleep_poll_lock

\* Either::Left((res, _)) => Some(res); the Sleep is dropped (stream.rs 310).
\* A panic of the handshake wait unwinds through the call.
SelectLeft ==
    /\ rres = "running"
    /\ hpc \in {"ok", "err", "panic"}
    /\ rres' = CASE hpc = "ok" -> "SomeOk"
                 [] hpc = "err" -> "SomeErr"
                 [] OTHER -> "panic"
    /\ dropped' = TRUE
    /\ droppedEarly' = (sleepState # SleepDone)
    /\ UNCHANGED <<sleepState, lock, tpc, told, ppc, sres, npolls, wakes, racy>>
    /\ UNCHANGED <<codecVars, streamVars>>

\* faulty variant: None as soon as the timer is Done, whatever the handshake
\* wait has returned
SelectRight_unpolled ==
    /\ rres = "running"
    /\ ppc = "idle"
    /\ sleepState = SleepDone
    /\ rres' = "None"
    /\ hpc' = "dropped"
    /\ dropped' = TRUE
    /\ op' = "select"
    /\ UNCHANGED <<sleepState, lock, tpc, told, ppc, sres, npolls, droppedEarly, wakes,
                   racy>>
    /\ UNCHANGED <<monq, dataq, nmon, ndata, nendpoints, connecting, hsSeen, discSeen,
                   inner, fres, delivered>>
    /\ UNCHANGED codecVars

\* Either::Right(_) => None; the handshake wait is dropped with its sockets
\* (stream.rs 311)
SelectRight ==
    /\ rres = "running"
    /\ ppc = "idle"
    /\ sres = SleepReady
    /\ rres' = "None"
    /\ hpc' = "dropped"
    /\ dropped' = TRUE
    /\ op' = "select"
    /\ UNCHANGED <<sleepState, lock, tpc, told, ppc, sres, npolls, droppedEarly, wakes,
                   racy>>
    /\ UNCHANGED <<monq, dataq, nmon, ndata, nendpoints, connecting, hsSeen, discSeen,
                   inner, fres, delivered>>
    /\ UNCHANGED codecVars

TimeoutNext ==
    \/ TimeoutStart
    \/ TimeoutMonitorArrive
    \/ TimeoutHandshakeStart
    \/ TimeoutHandshakeStep
    \/ TimeoutSleepPoll
    \/ Sleep_poll_body
    \/ Sleep_poll_return
    \/ SelectLeft
    \/ SelectRight
    \/ ThreadNext

SpecTimeout == Init /\ [][TimeoutNext]_vars

(***************************************************************************)
(* Properties of the codec, checked under SpecCodec.                       *)
(***************************************************************************)
Decoded3 == cpc \in {"decoded", "reencoded"} /\ Len(mp) = 3

\* C1: round trip: for every Message v of the six variants, serialize_to_vecs(v)
\* completes with three frames and from_multipart of those frames returns Ok(v).
C1_RoundTrip ==
    /\ cpc = "encoded" => (enc.tag = "Ok" /\ Len(enc.val) = 3)
    /\ cpc = "redecoded" => dec = Ok(msg)

IsHashGroup ==
    /\ Decoded3
    /\ mp[1] \in {T_hashblock, T_hashtx}
    /\ Len(mp[2]) = HashLen
    /\ Len(mp[3]) = SEQUENCE_LEN

\* C2: for topic hashblock or hashtx and a 32 byte data frame d (4 byte sequence
\* frame), decoding succeeds with a hash whose byte array is d reversed, and
\* encoding the decoded Message gives back exactly the three original frames.
C2_HashReversed ==
    IsHashGroup =>
        /\ dec.tag = "Ok"
        /\ dec.val.kind = (IF mp[1] = T_hashblock THEN "HashBlock" ELSE "HashTx")
        /\ Len(dec.val.hash) = HashLen
        /\ \A i \in 1..HashLen : dec.val.hash[i] = mp[2][HashLen + 1 - i]
        /\ cpc = "reencoded" => enc = Ok(mp)

C2_Witness ==
    /\ IsHashGroup
    /\ cpc = "reencoded"
    /\ mp[1] = T_hashtx
    /\ mp[2][1] # mp[2][HashLen]
    /\ enc = Ok(mp)

\* C3: a frame group of n # 3 frames decodes to InvalidMutlipartLength(n),
\* whatever its frames hold.
C3_MultipartLength ==
    (cpc = "decoded" /\ Len(mp) # 3) => dec = Err(InvalidMutlipartLength(Len(mp)))

C3_Witness ==
    /\ cpc = "decoded"
    /\ Len(mp) = 4
    /\ mp[1] \notin KnownTopics
    /\ Len(mp[3]) # SEQUENCE_LEN
    /\ dec = Err(InvalidMutlipartLength(4))

IsUnknownTopicGroup ==
    /\ Decoded3
    /\ Len(mp[3]) = SEQUENCE_LEN
    /\ mp[1] \notin KnownTopics

\* C4: three frames, a 4 byte sequence frame and a topic t that is none of the six:
\* the result is InvalidTopic(len(t), buf), buf being 9 bytes, the first
\* min(9, len(t)) those of t and the rest zero.
C4_InvalidTopicSnapshot ==
    IsUnknownTopicGroup =>
        /\ dec.tag = "Err"
        /\ dec.err.kind = "InvalidTopic"
        /\ dec.err.len = Len(mp[1])
        /\ Len(dec.err.buf) = TOPIC_MAX_LEN
        /\ \A i \in 1..TOPIC_MAX_LEN :
              dec.err.buf[i] = (IF i <= Len(mp[1]) THEN mp[1][i] ELSE 0)

C4_Witness ==
    /\ IsUnknownTopicGroup
    /\ Len(mp[1]) > TOPIC_MAX_LEN
    /\ dec.tag = "Err"
    /\ dec.err.kind = "InvalidTopic"
    /\ dec.err.buf[TOPIC_MAX_LEN] = mp[1][TOPIC_MAX_LEN]

\* C5: three frames whose sequence frame has length L # 4 decode to
\* InvalidSequenceLength(L) for every topic and data frame.
C5_SequenceLengthFirst ==
    (Decoded3 /\ Len(mp[3]) # SEQUENCE_LEN) =>
        dec = Err(InvalidSequenceLength(Len(mp[3])))

C5_Witness ==
    /\ Decoded3
    /\ Len(mp[3]) > SEQUENCE_LEN
    /\ mp[1] \notin KnownTopics
    /\ dec = Err(InvalidSequenceLength(Len(mp[3])))

IsBadHashGroup ==
    /\ Decoded3
    /\ mp[1] \in {T_hashblock, T_hashtx}
    /\ Len(mp[3]) = SEQUENCE_LEN
    /\ Len(mp[2]) # HashLen

\* C6: topic hashblock or hashtx, a 4 byte sequence frame and a data frame of
\* length L # 32 decode to Invalid256BitHashLength(L).
C6_HashLength ==
    IsBadHashGroup => dec = Err(Invalid256BitHashLength(Len(mp[2])))

C6_Witness ==
    /\ IsBadHashGroup
    /\ Len(mp[2]) > HashLen
    /\ dec = Err(Invalid256BitHashLength(Len(mp[2])))

\* C7: topic hashwtx, a 4 byte sequence frame and a data frame of length L < 32
\* decode to the error value Invalid256BitHashLength(L), without abort.
C7_HashWTxShort ==
    (/\ Decoded3
     /\ mp[1] = T_hashwtx
     /\ Len(mp[3]) = SEQUENCE_LEN
     /\ Len(mp[2]) < HashLen) => dec = Err(Invalid256BitHashLength(Len(mp[2])))

\* C8: encoding HashWTx(hash, label, seq) with a label of at most 32 bytes
\* completes with a 64 byte data frame: the hash bytes reversed, then the label
\* padded with zero bytes to 32.
C8_HashWTxEncode ==
    (cpc = "encoded" /\ msg.kind = "HashWTx" /\ Len(msg.wallet) <= WalletPadLen) =>
        /\ enc.tag = "Ok"
        /\ Len(enc.val[2]) = HashLen + WalletPadLen
        /\ \A i \in 1..HashLen : enc.val[2][i] = msg.hash[HashLen + 1 - i]
        /\ \A i \in 1..WalletPadLen :
              enc.val[2][HashLen + i] =
                  (IF i <= Len(msg.wallet) THEN msg.wallet[i] ELSE 0)

(***************************************************************************)
(* Properties of the streams, checked under SpecStream.                    *)
(***************************************************************************)
\* what the inner stream yields to the loop of FiniteMessageStream::poll_next
\* from the monitor queue: the first item that is not an ignored event
RECURSIVE FirstDeciding(_)
FirstDeciding(mq) ==
    IF mq = <<>> THEN "none"
    ELSE IF Head(mq) \in {"HandshakeSucceeded", "Connected"}
    THEN FirstDeciding(Tail(mq))
    ELSE Head(mq)

\* C9: the Finite Stream is Open (inner present) or Closed (inner dropped).  A
\* poll of an Open stream to which the inner stream yields Disconnected closes it
\* and returns end-of-stream; once Closed it stays Closed, every poll returns
\* end-of-stream (no item, no pending, no abort) and is_terminated() is true.
C9_FiniteStateMachine ==
    [][ /\ inner = "None" =>
            (inner' = "None" /\ fres' = ReadyNone /\ is_terminated')
        /\ (inner = "Some" /\ op' = "poll" /\ FirstDeciding(monq) = "Disconnected") =>
            (inner' = "None" /\ fres' = ReadyNone /\ is_terminated')
        /\ (inner = "Some" /\ inner' # "Some") =>
            (op' = "poll" /\ FirstDeciding(monq) = "Disconnected")
      ]_vars

C9_Witness ==
    /\ inner = "None"
    /\ op = "poll"
    /\ fres = ReadyNone
    /\ is_terminated
    /\ dataq # <<>>

\* C10: with N >= 1 endpoints the pending counter is N - (HandshakeSucceeded
\* read) + (Disconnected read) at every point of the wait, other kinds leaving
\* it alone; the wait goes on while (HandshakeSucceeded read) - (Disconnected
\* read) < N and hands out the Finite Stream exactly when the difference is N.
C10_HandshakeGate ==
    nendpoints >= 1 =>
        /\ hpc = "waiting" =>
              /\ connecting = nendpoints - hsSeen + discSeen
              /\ hsSeen - discSeen < nendpoints
              /\ inner = "Unbuilt"
        /\ hpc = "ok" =>
              /\ connecting = 0
              /\ hsSeen - discSeen = nendpoints
              /\ inner # "Unbuilt"

C10_Witness ==
    /\ nendpoints >= 1
    /\ hpc = "ok"
    /\ op = "handshake"
    /\ discSeen >= 1
    /\ hsSeen = nendpoints + discSeen

(***************************************************************************)
(* Properties of the timeout variant, checked under SpecTimeout.           *)
(***************************************************************************)
\* C11: with an empty endpoint list the handshake wait is over at its first
\* poll, with the Finite Stream built when socket setup succeeded, without
\* having read a connection event; the Sleep is never polled, so the call
\* never returns None, whatever the state of the timer
C11_EmptyEndpoints ==
    (hpc # "start" /\ nendpoints = 0) =>
        /\ hpc \in {"ok", "err"}
        /\ hpc = "ok" => (inner = "Some" /\ connecting = 0)
        /\ Len(monq) = nmon /\ hsSeen = 0 /\ discSeen = 0
        /\ npolls = 0
        /\ rres \in {"running", "SomeOk", "SomeErr"}
        /\ rres = "SomeOk" => hpc = "ok"
        /\ rres = "SomeErr" => hpc = "err"

\* the call returned the stream although the timer was Done before the return
C11_Witness ==
    /\ nendpoints = 0
    /\ rres = "SomeOk"
    /\ inner = "Some"
    /\ sleepState = SleepDone
    /\ ~droppedEarly

\* C12: once the timer is Done with the handshake counter still above zero
\* the wait can no longer produce the stream and the call returns None, after
\* which the abandoned wait reads no event and builds no stream; once the
\* counter has reached zero the call returns Some(Ok(stream)) and nothing the
\* caller was given changes afterwards
C12_TimerRace ==
    [][/\ (rres = "running" /\ hpc = "waiting" /\ sleepState = SleepDone) =>
            (hpc' # "ok" /\ rres' \in {"running", "None"})
       /\ rres = "None" =>
            (rres' = "None" /\ monq' = monq /\ connecting' = connecting
             /\ hpc' = "dropped" /\ inner' = "Unbuilt")
       /\ (rres = "running" /\ hpc = "ok") => rres' \in {"running", "SomeOk"}
       /\ rres = "SomeOk" => (rres' = "SomeOk" /\ inner' = inner /\ hpc' = hpc)
      ]_vars

\* what holds of a value the timeout variant has returned
ReturnedOutcome ==
    /\ rres = "SomeOk" =>
            /\ hpc = "ok" /\ inner = "Some"
            /\ connecting = 0 /\ hsSeen = nendpoints + discSeen
    /\ rres = "None" =>
            /\ sleepState = SleepDone /\ sres = SleepReady
            /\ hpc = "dropped" /\ inner = "Unbuilt"
            /\ connecting > 0
    /\ rres = "SomeErr" => (hpc = "err" /\ inner = "Unbuilt")

\* C13: a value the timeout variant returns is Some(Ok(stream)) only with the
\* counter at zero, None only with the timer Done, found by a poll of the Sleep,
\* and the handshake wait unresolved, Some(Err) only after socket setup or the
\* monitor channel reported an error to the wait; once an error has been
\* reported the call returns neither None nor a stream
C13_Outcomes ==
    [][/\ ReturnedOutcome'
       /\ hpc = "err" => (hpc' = "err" /\ inner' = "Unbuilt"
                           /\ rres' \in {"running", "SomeErr"})
      ]_vars

\* a monitor error is returned as Some(Err) although the timer was already Done
C13_Witness ==
    /\ rres = "SomeErr"
    /\ nmon > 0
    /\ sleepState = SleepDone
    /\ ~droppedEarly

(***************************************************************************)
(* Properties of the polled streams, checked under SpecStream and          *)
(* SpecMerged.                                                             *)
(***************************************************************************)
\* a poll of the Finite Stream can be made: the stream was handed out and no
\* earlier poll aborted
CanPoll == hpc = "ok" /\ fres # PollPanic

\* the inner stream of an Open Finite Stream yields, after the events the poll
\* passes over, nothing from the monitor side
MonitorSilent == FirstDeciding(monq) = "none"

\* the error item the inner stream yields next to a poll, if it yields one
NextError ==
    CASE FirstDeciding(monq) = "Err" -> Err(TransportError)
      [] MonitorSilent /\ dataq # <<>> /\ Head(dataq).k = "Malformed" -> Err(DecodeError)
      [] MonitorSilent /\ dataq # <<>> /\ Head(dataq).k = "Err" -> Err(TransportError)
      [] OTHER -> NoResult

IsErrorItem(r) ==
    r # NoResult /\ r.poll = "Ready" /\ r.opt = "Some" /\ r.item.tag = "Err"

\* C14: a poll of an Open Finite Stream whose inner stream yields an error item
\* returns that error as an item and leaves the stream Open, is_terminated()
\* false; a poll made after an error item was returned delivers the
\* Notification that is next; the stream is closed by a Disconnected event only
C14_ErrorsDoNotTerminate ==
    [][/\ (CanPoll /\ inner = "Some" /\ op' = "poll" /\ NextError # NoResult) =>
            /\ fres' = ReadySome(NextError)
            /\ inner' = "Some" /\ ~is_terminated'
       /\ (CanPoll /\ inner = "Some" /\ op' = "poll" /\ IsErrorItem(fres)
           /\ MonitorSilent /\ dataq # <<>> /\ Head(dataq).k = "Good") =>
            /\ fres' = ReadySome(Ok(Head(dataq).id))
            /\ inner' = "Some"
       /\ (IsErrorItem(fres') /\ op' = "poll") => (inner' = inner /\ ~is_terminated')
       /\ (inner = "Some" /\ inner' = "None") => FirstDeciding(monq) = "Disconnected"
      ]_vars

\* an error item was returned, a later poll returned a Notification, and the
\* stream is still Open
C14_Witness ==
    /\ inner = "Some"
    /\ ~is_terminated
    /\ \E i, j \in 1..Len(delivered) :
          /\ i < j
          /\ delivered[i].item.tag = "Err"
          /\ delivered[j].item.tag = "Ok"

\* the kinds of Connection Event the monitor socket reports
EventKinds == {"HandshakeSucceeded", "Disconnected", "Connected"}

\* a step that is a poll of the Monitor-Merged Stream
MergedPollStep == hpc = "merged" /\ fres # PollPanic /\ op' = "mpoll"

\* C15: a poll of the Monitor-Merged Stream that finds the event stream ready
\* takes the item at its head, returns it as a Connection Event when it is one,
\* and takes nothing from the data stream however many data items are ready;
\* a poll takes a data item only when the event stream is pending
C15_MonitorPriority ==
    [][/\ (MergedPollStep /\ monq # <<>>) =>
            /\ dataq' = dataq
            /\ monq' = Tail(monq)
            /\ Head(monq) \in EventKinds => fres' = ReadySome(Ok(Event(Head(monq))))
       /\ (MergedPollStep /\ dataq' # dataq) => (monq = <<>> /\ dataq' = Tail(dataq))
       /\ (MergedPollStep /\ monq = <<>> /\ dataq = <<>>) => fres' = Pending
      ]_vars

\* a Disconnected event was returned with every data item still queued
C15_Witness ==
    /\ hpc = "merged"
    /\ op = "mpoll"
    /\ fres = ReadySome(Ok(Event("Disconnected")))
    /\ Len(dataq) = MaxDataItems
    /\ dataq[1].k = "Good"

\* the monitor items left once the leading events other than Disconnected
\* are taken away
RECURSIVE DropSilent(_)
DropSilent(mq) ==
    IF mq # <<>> /\ Head(mq) \in {"HandshakeSucceeded", "Connected"}
    THEN DropSilent(Tail(mq))
    ELSE mq

\* the ids of the Notifications among the items returned, in order
RECURSIVE DeliveredIds(_)
DeliveredIds(d) ==
    IF d = <<>> THEN <<>>
    ELSE IF Head(d).item.tag = "Ok"
    THEN <<Head(d).item.val>> \o DeliveredIds(Tail(d))
    ELSE DeliveredIds(Tail(d))

\* the ids of the well-formed frame groups of a data queue, in order
RECURSIVE QueuedIds(_)
QueuedIds(dq) ==
    IF dq = <<>> THEN <<>>
    ELSE IF Head(dq).k = "Good"
    THEN <<Head(dq).id>> \o QueuedIds(Tail(dq))
    ELSE QueuedIds(Tail(dq))

\* the data frame groups taken for the items returned
RECURSIVE DataTaken(_)
DataTaken(d) == IF d = <<>> THEN 0 ELSE Head(d).data + DataTaken(Tail(d))

Increasing(ids) == \A i, j \in 1..Len(ids) : i < j => ids[i] < ids[j]

\* what a poll of the Finite Stream may return: a Notification, an error
\* item, end-of-stream or pending, never a Connection Event
FiniteResultShape(r) ==
    \/ r = Pending
    \/ r = ReadyNone
    \/ IsErrorItem(r)
    \/ /\ r.poll = "Ready" /\ r.opt = "Some" /\ r.item.tag = "Ok"
       /\ r.item.val \in 1..ndata

\* C16: a poll of the Finite Stream returns a Notification, an error item,
\* end-of-stream (only once Closed) or pending, never a Connection Event; a
\* poll of an Open stream takes every ready event up to the first that is
\* not passed over, and returns pending only with both queues empty; the
\* Notifications returned are those of the data stream, none lost and in its
\* order, whatever events arrive in between
C16_EventsNotSurfaced ==
    [][/\ (CanPoll /\ op' = "poll" /\ fres' # PollPanic) =>
            /\ FiniteResultShape(fres')
            /\ fres' = ReadyNone => inner' = "None"
            /\ fres' = Pending => (monq' = <<>> /\ dataq' = <<>>)
       /\ (CanPoll /\ op' = "poll" /\ inner = "Some") =>
            /\ monq' = IF DropSilent(monq) = <<>> THEN <<>> ELSE Tail(DropSilent(monq))
            /\ dataq' # dataq => (DropSilent(monq) = <<>> /\ dataq' = Tail(dataq))
       /\ (fres' # PollPanic) =>
            /\ Increasing(DeliveredIds(delivered') \o QueuedIds(dataq'))
            /\ DataTaken(delivered') + Len(dataq') = ndata'
      ]_vars

\* with no handshake wait before it, the Finite Stream has taken every
\* connection event that arrived and returned the Notifications 1 and 2
C16_Witness ==
    /\ nendpoints = 0
    /\ inner = "Some"
    /\ nmon = MaxMonitorItems
    /\ monq = <<>>
    /\ DeliveredIds(delivered) = <<1, 2>>
    /\ Len(delivered) = 2

\* the inner stream of an Open Finite Stream yields end-of-input next: the
\* monitor stream after the events passed over, or the data stream with the
\* monitor stream pending
EndOfInputNext ==
    \/ FirstDeciding(monq) = "End"
    \/ MonitorSilent /\ dataq # <<>> /\ Head(dataq).k = "End"

\* C17: the streams built on the transport report is_terminated() false, and a
\* poll of an Open Finite Stream whose inner stream yields end-of-input
\* returns without abort and leaves the stream Open
C17_EndOfInput ==
    [][/\ ~MessageStream_is_terminated /\ ~SocketMessageStream_is_terminated
       /\ (CanPoll /\ inner = "Some" /\ op' = "poll" /\ EndOfInputNext) =>
            (fres' # PollPanic /\ inner' = "Some" /\ ~is_terminated')
      ]_vars

(***************************************************************************)
(* Properties of the Timer, checked under SpecTimer.                       *)
(***************************************************************************)
\* the last call of Sleep::poll was call w and has returned Pending
LastPollPending(w) == ppc = "idle" /\ sres = Pending /\ npolls = w

Woken(w) == \E i \in 1..Len(wakes) : wakes[i].waker = w

\* the waker of call w is where the thread will find it, or the thread holds
\* it and is about to invoke it, or it was invoked
WakerRegistered(w) ==
    \/ sleepState = SleepPendingPolled(w)
    \/ tpc \in {"unlock", "wake"} /\ told = SleepPendingPolled(w)
    \/ Woken(w)

\* C18: a call of Sleep::poll that returned Pending has left its waker
\* registered until the thread takes it, and the thread invokes the waker it
\* took when it stored Done; a call made once a waker was invoked returns
\* Ready; with the thread scheduled fairly, a Sleep whose last poll returned
\* Pending is eventually woken through the waker of that poll, unless a later
\* poll has registered another waker before
C18_NoLostWakeup ==
    /\ [](\A w \in 1..MaxPolls : LastPollPending(w) => WakerRegistered(w))
    /\ [](wakes # <<>> => sleepState = SleepDone)
    /\ [][(ppc = "locked" /\ ppc' = "unlock" /\ wakes # <<>>) => sres' = SleepReady]_vars
    /\ \A w \in 1..MaxPolls :
          LastPollPending(w) ~> (Woken(w) \/ (npolls > w /\ ppc = "idle" /\ sres = Pending))

\* the waker of the last of several polls was invoked
C18_Witness ==
    /\ LastPollPending(MaxPolls)
    /\ Woken(MaxPolls)
    /\ tpc = "exit"

\* C19: each invocation of the waker is made with the mutex not held by the
\* thread and with the state already Done, there is at most one per Timer,
\* and no read or write of the state is made without the mutex held
C19_WakeOutsideLock ==
    /\ \A i \in 1..Len(wakes) : ~wakes[i].locked /\ wakes[i].flag = "Done"
    /\ tpc = "wake" => (lock # "thread" /\ sleepState = SleepDone)
    /\ Len(wakes) <= 1
    /\ ~racy
    /\ lock = "thread" <=> tpc \in {"replace", "unlock"}
    /\ lock = "poller" <=> ppc \in {"locked", "unlock"}

\* the waker was invoked while a later call of Sleep::poll held the mutex
C19_Witness ==
    /\ Len(wakes) = 1
    /\ lock = "poller"
    /\ tpc = "exit"

\* C20: when the Sleep was dropped before the thread stored Done, whether or
\* not it had been polled, the thread invokes no waker, and it has then ended
\* with the state Done
C20_DroppedTimer ==
    droppedEarly =>
        /\ wakes = <<>>
        /\ tpc = "exit" => sleepState = SleepDone

(***************************************************************************)
(* Properties of the handshake wait, checked under SpecStream.             *)
(***************************************************************************)
\* a step in which subscribe_async_wait_handshake reads a monitor item
HandshakeReads == op' = "handshake" /\ monq' = Tail(monq)

\* C21: the pending counter is never below 0; the wait reads a connection
\* event only with the counter at 1 or more, so the decrement of a
\* HandshakeSucceeded leaves it at 0 or more; once the counter has reached 0
\* the wait reads no further event and the counter keeps its value
C21_NoUnderflow ==
    [][/\ connecting >= 0 /\ connecting' >= 0
       /\ (hpc = "waiting" /\ HandshakeReads) =>
            /\ connecting >= 1
            /\ Head(monq) = "HandshakeSucceeded" => connecting' = connecting - 1
       /\ HandshakeReads => hpc = "waiting"
       /\ hpc = "waiting" => connecting >= 1
       /\ (hpc \in {"waiting", "ok"} /\ connecting = 0) =>
            (hpc = "ok" /\ ~HandshakeReads /\ connecting' = 0
             /\ hsSeen' = hsSeen /\ discSeen' = discSeen)
      ]_vars

\* the wait has read Disconnected and HandshakeSucceeded events and its last
\* decrement brought the counter from 1 to 0
C21_Witness ==
    /\ op = "handshake"
    /\ hpc = "ok"
    /\ connecting = 0
    /\ discSeen >= 1
    /\ hsSeen = nendpoints + discSeen

(***************************************************************************)
(* The order of the Timer's states, checked under SpecTimer.               *)
(***************************************************************************)
\* thread::sleep(dur) has not returned yet
SleepNotElapsed == tpc \in {"unspawned", "sleeping"}

\* C22: the state moves forward only: Pending to PendingPolled or Done,
\* PendingPolled to PendingPolled (a newer waker) or Done, and Done stays
\* Done under every step; Done is stored by the thread's mem::replace only,
\* which runs after thread::sleep has returned, and PendingPolled by
\* Sleep::poll only; Sleep::poll returns Ready exactly when it finds Done, so
\* never before the sleep has elapsed and on every call made once the state
\* is Done
C22_FlagMovesForward ==
    [][/\ sleepState = SleepDone => sleepState' = SleepDone
       /\ sleepState.s = "PendingPolled" => sleepState'.s \in {"PendingPolled", "Done"}
       /\ (sleepState # SleepDone /\ sleepState' = SleepDone) =>
            (tpc = "replace" /\ tpc' = "unlock" /\ ppc' = ppc)
       /\ (sleepState' # sleepState /\ sleepState'.s = "PendingPolled") =>
            (ppc = "locked" /\ ppc' = "unlock" /\ tpc' = tpc)
       /\ SleepNotElapsed' => (sleepState' # SleepDone /\ sres' # SleepReady)
       /\ sres' = SleepReady => sleepState' = SleepDone
       /\ (ppc = "locked" /\ ppc' = "unlock") =>
            (sres' = SleepReady <=> sleepState = SleepDone)
      ]_vars

\* the first poll registered a waker the thread took when it stored Done, and
\* the polls after it, made with the state Done, returned Ready
C22_Witness ==
    /\ npolls = MaxPolls
    /\ ppc = "idle"
    /\ sres = SleepReady
    /\ sleepState = SleepDone
    /\ wakes # <<>>
    /\ wakes[1].waker = 1

\* q extends p at its end
Extends(q, p) == Len(q) >= Len(p) /\ SubSeq(q, 1, Len(p)) = p

\* what a poll of the Finite Stream returns for the data item it takes: the
\* Notification of a well-formed frame group, or the error item of the others
DeliveredFor(it) ==
    IF it.k = "Good"
    THEN ReadySome(Ok(it.id))
    ELSE MessageStream_poll_next(<<it>>).res

\* C23: while the handshake wait runs no step takes an item from the data
\* stream: the data queue only grows at its end and nothing is delivered; when
\* the wait hands out the Finite Stream every data item that has arrived is
\* queued in arrival order; afterwards each item taken from the data queue is
\* the one at its head and is returned by the poll that took it, so the
\* items are delivered in their order, none skipped
C23_HandshakeLeavesData ==
    [][/\ HandshakeReads => dataq' = dataq
       /\ hpc \in {"start", "waiting"} =>
            (Extends(dataq', dataq) /\ delivered' = <<>> /\ Len(dataq') = ndata')
       /\ (hpc = "waiting" /\ hpc' = "ok") =>
            (dataq' = dataq /\ Len(dataq) = ndata /\ Increasing(QueuedIds(dataq)))
       /\ (hpc = "ok" /\ dataq' # dataq /\ ~Extends(dataq', dataq)) =>
            /\ op' = "poll" /\ inner = "Some"
            /\ dataq' = Tail(dataq)
            /\ Head(dataq).k # "End" =>
                  /\ delivered' = Append(delivered, [item |-> fres'.item, data |-> 1])
                  /\ fres' = DeliveredFor(Head(dataq))
      ]_vars

\* the wait has handed out the Finite Stream after reading events, and the
\* data items that arrived meanwhile are all still queued
C23_Witness ==
    /\ op = "handshake"
    /\ hpc = "ok"
    /\ hsSeen >= 1
    /\ ndata = MaxDataItems
    /\ Len(dataq) = MaxDataItems
    /\ dataq[1].k = "Good"
    /\ delivered = <<>>

====
